---- MODULE Spec2Model ----
(***************************************************************************)
(* Catalog manager (jop221/demoexam): the entity store, the spreadsheet    *)
(* import command (catalog/management/commands/import_data.py), the access *)
(* policy of catalog/models.py and the request handlers of                 *)
(* catalog/views.py.                                                       *)
(*                                                                         *)
(* Python strings are sequences of one-character strings, so that strip,   *)
(* replace, float(), int() and strptime() are computed on the characters.  *)
(* The Cyrillic literals of the source are written in Latin transliteration*)
(* (the original is given in the comment of each definition).              *)
(***************************************************************************)
EXTENDS Integers, Sequences, FiniteSets, TLC

(***************************************************************************)
(* Bounds of the model.                                                    *)
(***************************************************************************)
\* the longest spreadsheet (data rows) an import step reads
MaxRows == 2

(***************************************************************************)
(* Python values: cells of a worksheet as openpyxl returns them            *)
(* (values_only=True): None, str, int, datetime.                           *)
(***************************************************************************)
PyNone == [t |-> "none"]
PyStr(s) == [t |-> "str", s |-> s]
PyInt(n) == [t |-> "int", i |-> n]
PyDateTime(d) == [t |-> "datetime", d |-> d]
PyBool(b) == [t |-> "bool", b |-> b]
\* a model instance (a Role row): truthy, carries the row's name
PyObj(name) == [t |-> "obj", name |-> name]

\* bool(v): the truth value Python gives v in `if v`, `not v`, `a and b`, `a or b`
Truthy(v) ==
    CASE v.t = "none" -> FALSE
      [] v.t = "str" -> v.s # <<>>
      [] v.t = "int" -> v.i # 0
      [] v.t = "bool" -> v.b
      [] OTHER -> TRUE

\* a and b
PyAnd(a, b) == IF Truthy(a) THEN b ELSE a

\* a or b
PyOr(a, b) == IF Truthy(a) THEN a ELSE b

(***************************************************************************)
(* Characters and strings.                                                 *)
(***************************************************************************)
DigitChars == <<"0", "1", "2", "3", "4", "5", "6", "7", "8", "9">>

IsDigit(c) == \E i \in 1..Len(DigitChars) : DigitChars[i] = c

DigitVal(c) == (CHOOSE i \in 1..Len(DigitChars) : DigitChars[i] = c) - 1

IsSpace(c) == c = " "

AllDigits(s) == \A i \in 1..Len(s) : IsDigit(s[i])

\* str.lstrip()
RECURSIVE LStrip(_)
LStrip(s) == IF s # <<>> /\ IsSpace(Head(s)) THEN LStrip(Tail(s)) ELSE s

\* str.rstrip()
RECURSIVE RStrip(_)
RStrip(s) ==
    IF s # <<>> /\ IsSpace(s[Len(s)]) THEN RStrip(SubSeq(s, 1, Len(s) - 1)) ELSE s

\* str.strip()
Strip(s) == RStrip(LStrip(s))

\* s.replace(c, r) for a one-character pattern c
RECURSIVE Replace(_, _, _)
Replace(s, c, r) ==
    IF s = <<>> THEN <<>>
    ELSE (IF Head(s) = c THEN r ELSE <<Head(s)>>) \o Replace(Tail(s), c, r)

\* the decimal digits of a natural number
RECURSIVE NatStr(_)
NatStr(n) ==
    IF n < 10 THEN <<DigitChars[n + 1]>>
    ELSE NatStr(n \div 10) \o <<DigitChars[(n % 10) + 1]>>

\* the value of a non-empty digit string
RECURSIVE DigitsVal(_)
DigitsVal(s) ==
    IF s = <<>> THEN 0
    ELSE DigitsVal(SubSeq(s, 1, Len(s) - 1)) * 10 + DigitVal(s[Len(s)])

\* str(v) for a cell value
PyStrOf(v) ==
    CASE v.t = "none" -> <<"N", "o", "n", "e">>
      [] v.t = "str" -> v.s
      [] v.t = "int" -> IF v.i < 0 THEN <<"-">> \o NatStr(-v.i) ELSE NatStr(v.i)
      [] v.t = "bool" -> IF v.b THEN <<"T", "r", "u", "e">> ELSE <<"F", "a", "l", "s", "e">>
      [] OTHER -> <<"<", v.t, ">">>

UpperChars ==
    <<"A", "B", "C", "D", "E", "F", "G", "H", "I", "J", "K", "L", "M",
      "N", "O", "P", "Q", "R", "S", "T", "U", "V", "W", "X", "Y", "Z">>

LowerChars ==
    <<"a", "b", "c", "d", "e", "f", "g", "h", "i", "j", "k", "l", "m",
      "n", "o", "p", "q", "r", "s", "t", "u", "v", "w", "x", "y", "z">>

\* str.lower() on one character
Lower(c) ==
    IF \E i \in 1..Len(UpperChars) : UpperChars[i] = c
    THEN LowerChars[CHOOSE i \in 1..Len(UpperChars) : UpperChars[i] = c]
    ELSE c

LowerStr(s) == [i \in 1..Len(s) |-> Lower(s[i])]

(***************************************************************************)
(* float(), int(), Decimal columns, strptime().                            *)
(***************************************************************************)
RECURSIVE Pow10(_)
Pow10(n) == IF n = 0 THEN 1 ELSE 10 * Pow10(n - 1)

\* the index of the first occurrence of c in s, 0 when there is none
FirstIndex(s, c) ==
    IF \E i \in 1..Len(s) : s[i] = c
    THEN CHOOSE i \in 1..Len(s) : s[i] = c /\ \A j \in 1..(i - 1) : s[j] # c
    ELSE 0

FloatZero == [kind |-> "fin", neg |-> FALSE, units |-> 0, frac |-> <<>>]

\* float(s) for a str s: [ok |-> FALSE] is ValueError.  Surrounding blanks
\* are ignored, then an optional sign, then inf / infinity / nan in any case
\* or digits with at most one point.  (Exponents and digit-group underscores
\* are outside the alphabet of the cells enumerated below.)
FloatOfStr(s) ==
    LET t == Strip(s)
        signed == t # <<>> /\ Head(t) \in {"-", "+"}
        neg == t # <<>> /\ Head(t) = "-"
        body == IF signed THEN Tail(t) ELSE t
        low == LowerStr(body)
        dot == FirstIndex(body, ".")
        ip == IF dot = 0 THEN body ELSE SubSeq(body, 1, dot - 1)
        fp == IF dot = 0 THEN <<>> ELSE SubSeq(body, dot + 1, Len(body))
    IN  IF low \in {<<"i", "n", "f">>, <<"i", "n", "f", "i", "n", "i", "t", "y">>}
        THEN [ok |-> TRUE, val |-> [kind |-> "inf", neg |-> neg, units |-> 0, frac |-> <<>>]]
        ELSE IF low = <<"n", "a", "n">>
        THEN [ok |-> TRUE, val |-> [kind |-> "nan", neg |-> neg, units |-> 0, frac |-> <<>>]]
        ELSE IF AllDigits(ip) /\ AllDigits(fp) /\ (ip # <<>> \/ fp # <<>>)
        THEN [ok |-> TRUE,
              val |-> [kind |-> "fin", neg |-> neg, units |-> DigitsVal(ip), frac |-> fp]]
        ELSE [ok |-> FALSE, val |-> FloatZero]

\* int(v): [ok |-> FALSE] is ValueError (a str that is no integer literal) or
\* TypeError (None, a datetime)
IntOf(v) ==
    CASE v.t = "int" -> [ok |-> TRUE, i |-> v.i]
      [] v.t = "bool" -> [ok |-> TRUE, i |-> IF v.b THEN 1 ELSE 0]
      [] v.t = "str" ->
            LET t == Strip(v.s)
                signed == t # <<>> /\ Head(t) \in {"-", "+"}
                body == IF signed THEN Tail(t) ELSE t
            IN  IF body # <<>> /\ AllDigits(body)
                THEN [ok |-> TRUE,
                      i |-> IF Head(t) = "-" THEN -DigitsVal(body) ELSE DigitsVal(body)]
                ELSE [ok |-> FALSE, i |-> 0]
      [] OTHER -> [ok |-> FALSE, i |-> 0]

\* the first decimal_places digits of a fraction as a number, rounded on the
\* digits that follow (ties to even); equal to 10^decimal_places on a carry
QuantizedFraction(frac, decimal_places) ==
    LET base == DigitsVal(SubSeq(frac \o [i \in 1..decimal_places |-> "0"], 1, decimal_places))
        rest == SubSeq(frac, decimal_places + 1, Len(frac))
    IN  IF /\ rest # <<>>
           /\ \/ DigitVal(rest[1]) > 5
              \/ /\ DigitVal(rest[1]) = 5
                 /\ \/ \E i \in 2..Len(rest) : rest[i] # "0"
                    \/ base % 2 = 1
        THEN base + 1
        ELSE base

DecimalOf(neg, units, cents) ==
    [neg |-> neg /\ (units # 0 \/ cents # 0), units |-> units, cents |-> cents]

DecimalCarry(f, sub, scale, limit) ==
    IF f.kind # "fin" \/ f.units + (IF sub = scale THEN 1 ELSE 0) >= limit
    THEN [ok |-> FALSE, val |-> DecimalOf(FALSE, 0, 0)]
    ELSE IF sub = scale
    THEN [ok |-> TRUE, val |-> DecimalOf(f.neg, f.units + 1, 0)]
    ELSE [ok |-> TRUE, val |-> DecimalOf(f.neg, f.units, sub)]

\* What a DecimalField(max_digits, decimal_places) column stores for a float
\* handed to objects.create / save: the value quantized to decimal_places;
\* [ok |-> FALSE] is the exception the save raises for a value that is not
\* finite or has more than max_digits digits.
DecimalColumn(f, max_digits, decimal_places) ==
    DecimalCarry(f, QuantizedFraction(f.frac, decimal_places), Pow10(decimal_places),
                 Pow10(max_digits - decimal_places))

\* d > 0 for a stored decimal
DecimalPositive(d) == ~d.neg /\ (d.units > 0 \/ d.cents > 0)

\* d > n for a stored decimal d and a natural number n
DecimalGreater(d, n) == ~d.neg /\ (d.units > n \/ (d.units = n /\ d.cents > 0))

\* a get_row_class whose sale threshold is met only above 20 (what C12
\* rules out)
get_row_class_above_20(product) ==
    IF product.stock = 0 THEN "table-info"
    ELSE IF DecimalGreater(product.discount, 20) THEN "row-sale"
    ELSE ""

\* Product.get_row_class
get_row_class(product) ==
    IF product.stock = 0 THEN "table-info"
    ELSE IF DecimalGreater(product.discount, 15) THEN "row-sale"
    ELSE ""

\* the parts of s between the points
RECURSIVE SplitDot(_)
SplitDot(s) ==
    LET dot == FirstIndex(s, ".")
    IN  IF dot = 0 THEN <<s>>
        ELSE <<SubSeq(s, 1, dot - 1)>> \o SplitDot(SubSeq(s, dot + 1, Len(s)))

IsLeap(y) == (y % 4 = 0 /\ y % 100 # 0) \/ y % 400 = 0

DaysInMonth(m, y) ==
    IF m = 2 THEN (IF IsLeap(y) THEN 29 ELSE 28)
    ELSE IF m \in {4, 6, 9, 11} THEN 30 ELSE 31

\* datetime.strptime(s, '%d.%m.%Y').date(): [ok |-> FALSE] is ValueError.
\* %d is one or two digits (or a blank and a digit), %m one or two digits,
\* %Y four digits; the text must match entirely and name a real day.
Strptime(s) ==
    LET parts == SplitDot(s)
        dd == parts[1]
        mm == parts[2]
        yy == parts[3]
        dtxt == IF Len(dd) = 2 /\ dd[1] = " " THEN Tail(dd) ELSE dd
        shape == /\ Len(parts) = 3
                 /\ Len(dtxt) \in {1, 2} /\ AllDigits(dtxt)
                 /\ Len(mm) \in {1, 2} /\ AllDigits(mm)
                 /\ Len(yy) = 4 /\ AllDigits(yy)
        d == DigitsVal(dtxt)
        m == DigitsVal(mm)
        y == DigitsVal(yy)
    IN  IF shape /\ y >= 1 /\ m \in 1..12 /\ d >= 1 /\ d <= DaysInMonth(m, y)
        THEN [ok |-> TRUE, date |-> [y |-> y, m |-> m, d |-> d]]
        ELSE [ok |-> FALSE, date |-> [y |-> 0, m |-> 0, d |-> 0]]

(***************************************************************************)
(* Worksheets.  A file is [headers, rows]: headers is the list the code    *)
(* builds from the first row (each header cell as text, stripped; '' for   *)
(* an empty one), rows are the tuples of iter_rows(min_row=2,              *)
(* values_only=True).  Column names are the source's, transliterated.      *)
(***************************************************************************)
\* dict(zip(headers, row)).get(key, default): a later duplicate header wins
Get(headers, row, key, default) ==
    LET n == IF Len(headers) < Len(row) THEN Len(headers) ELSE Len(row)
        hits == {i \in 1..n : headers[i] = key}
    IN  IF hits = {} THEN default
        ELSE row[CHOOSE i \in hits : \A j \in hits : j <= i]

\* 'Без категории'
BezKategorii == <<"B", "e", "z", " ", "k", "a", "t", "e", "g", "o", "r", "i", "i">>
\* 'Неизвестен'
Neizvesten == <<"N", "e", "i", "z", "v", "e", "s", "t", "e", "n">>
\* 'пара'
Para == <<"p", "a", "r", "a">>
\* 'products/' of f'products/{photo}'
ProductsDir == <<"p", "r", "o", "d", "u", "c", "t", "s", "/">>

\* Product.price: DecimalField(max_digits=10, decimal_places=2)
PriceMaxDigits == 10
PriceDecimalPlaces == 2
\* Product.discount: DecimalField(max_digits=5, decimal_places=2)
DiscountMaxDigits == 5
DiscountDecimalPlaces == 2

\* QuerySet.get_or_create(name=...) on a lookup table with a unique name
GetOrCreateName(table, name) == table \cup {name}

\* an update that adds the stock of d to the stock of the row (what C4
\* rules out)
UpdateOrCreateAdditive(products, article, d) ==
    IF \E p \in products : p.article = article
    THEN {IF p.article = article
          THEN [d EXCEPT !.stock = p.stock + @] @@ [article |-> article, image |-> p.image]
          ELSE p : p \in products}
    ELSE products \cup {d @@ [article |-> article, image |-> <<>>]}

\* Product.objects.update_or_create(article=article, defaults=d): the row
\* with that article has the fields of d overwritten (its image is kept),
\* or a new row is inserted with no image.
UpdateOrCreate(products, article, d) ==
    IF \E p \in products : p.article = article
    THEN {IF p.article = article THEN d @@ [article |-> article, image |-> p.image]
          ELSE p : p \in products}
    ELSE products \cup {d @@ [article |-> article, image |-> <<>>]}

\* try: float(str(cell or 0).replace('%', '').strip()) except: 0.0
ParseDiscount(headers, row) ==
    LET cell == PyOr(Get(headers, row, "Deystvuyushchaya skidka", PyInt(0)), PyInt(0))
        f == FloatOfStr(Strip(Replace(PyStrOf(cell), "%", <<>>)))
    IN  IF f.ok THEN f.val ELSE FloatZero

\* try: float(str(cell).replace(',', '.')) except: 0.0
ParsePrice(headers, row) ==
    LET f == FloatOfStr(Replace(PyStrOf(Get(headers, row, "Tsena", PyInt(0))), ",", <<".">>))
    IN  IF f.ok THEN f.val ELSE FloatZero

\* try: int(cell or 0) except: 0
ParseStock(headers, row) ==
    LET n == IntOf(PyOr(Get(headers, row, "Kol-vo na sklade", PyInt(0)), PyInt(0)))
    IN  IF n.ok THEN n.i ELSE 0

\* the defaults of update_or_create for a row, with the Decimal columns as
\* the save would store them; ok: the save does not raise
ProductFieldsOf(headers, row, price, discount) ==
    [ok |-> price.ok /\ discount.ok,
     defaults |->
        [name |-> Strip(PyStrOf(Get(headers, row, "Naimenovanie tovara", PyStr(<<>>)))),
         unit |-> Strip(PyStrOf(Get(headers, row, "Edinitsa izmereniya", PyStr(Para)))),
         price |-> price.val,
         discount |-> discount.val,
         stock |-> ParseStock(headers, row),
         description |->
             Strip(PyStrOf(PyOr(Get(headers, row, "Opisanie tovara", PyStr(<<>>)),
                                PyStr(<<>>)))),
         category |->
             Strip(PyStrOf(Get(headers, row, "Kategoriya tovara", PyStr(BezKategorii)))),
         manufacturer |-> Strip(PyStrOf(Get(headers, row, "Proizvoditel", PyStr(Neizvesten)))),
         supplier |-> Strip(PyStrOf(Get(headers, row, "Postavshchik", PyStr(Neizvesten))))]]

ProductFields(headers, row) ==
    ProductFieldsOf(headers, row,
                    DecimalColumn(ParsePrice(headers, row), PriceMaxDigits, PriceDecimalPlaces),
                    DecimalColumn(ParseDiscount(headers, row),
                                  DiscountMaxDigits, DiscountDecimalPlaces))

\* article = str(data.get('Артикул', '')).strip()
ProductArticle(headers, row) == Strip(PyStrOf(Get(headers, row, "Artikul", PyStr(<<>>))))

\* photo = str(data.get('Фото', '') or '').strip()
ProductPhoto(headers, row) ==
    Strip(PyStrOf(PyOr(Get(headers, row, "Foto", PyStr(<<>>)), PyStr(<<>>))))

\* if photo and not product.image and os.path.exists(src): the file is
\* copied and product.image set
CopyImage(product, photo, images) ==
    IF photo # <<>> /\ product.image = <<>> /\ photo \in images
    THEN [product EXCEPT !.image = ProductsDir \o photo]
    ELSE product

AttachImage(saved, article, photo, images) ==
    {IF p.article = article THEN CopyImage(p, photo, images) ELSE p : p \in saved}

\* the three get_or_create calls on the lookup tables
LookupsCreated(cat, d) ==
    [cat EXCEPT !.categories = GetOrCreateName(@, d.category),
                !.manufacturers = GetOrCreateName(@, d.manufacturer),
                !.suppliers = GetOrCreateName(@, d.supplier)]

\* the statements of the loop body that write: the lookups, the Product,
\* its image.  raised: update_or_create raised (the lookup rows made
\* before it stay: every statement is its own transaction).
StoreProductRow(looked, article, fields, photo, images) ==
    IF ~fields.ok THEN [cat |-> looked, raised |-> TRUE]
    ELSE [cat |-> [looked EXCEPT
                     !.products = AttachImage(UpdateOrCreate(@, article, fields.defaults),
                                              article, photo, images)],
          raised |-> FALSE]

ProductRowStored(cat, article, fields, photo, images) ==
    StoreProductRow(LookupsCreated(cat, fields.defaults), article, fields, photo, images)

\* One pass of the loop body of _import_products on a row whose first cell
\* is truthy.  cat is [categories, manufacturers, suppliers, products];
\* images is the set of file names present under images_path.
ImportProductRow(cat, headers, row, images) ==
    ProductRowStored(cat, ProductArticle(headers, row), ProductFields(headers, row),
                     ProductPhoto(headers, row), images)

\* The loop of _import_products over rows[i..]: rows with a falsy first
\* cell are passed over; count is the number printed after 'Товары:'.
RECURSIVE ImportProductRows(_, _, _, _, _, _)
RECURSIVE ProductRowsAfter(_, _, _, _, _, _)
ImportProductRows(cat, headers, rows, i, images, count) ==
    IF i > Len(rows) THEN [cat |-> cat, count |-> count, raised |-> FALSE]
    ELSE IF ~Truthy(rows[i][1])
    THEN ImportProductRows(cat, headers, rows, i + 1, images, count)
    ELSE ProductRowsAfter(ImportProductRow(cat, headers, rows[i], images),
                          headers, rows, i, images, count)

\* a row that raises ends the loop (the exception leaves the function)
ProductRowsAfter(r, headers, rows, i, images, count) ==
    IF r.raised THEN [cat |-> r.cat, count |-> count, raised |-> TRUE]
    ELSE ImportProductRows(r.cat, headers, rows, i + 1, images, count + 1)

\* _import_products(filepath, images_path)
ImportProductsFile(cat, file, images) ==
    ImportProductRows(cat, file.headers, file.rows, 1, images, 0)

(***************************************************************************)
(* Delivery points, users, orders.                                         *)
(***************************************************************************)
\* DeliveryPoint.objects.get_or_create(address=address): the table is the
\* list of addresses in primary-key order (the column is not unique)
GetOrCreateAddress(points, address) ==
    IF \E i \in 1..Len(points) : points[i] = address THEN points
    ELSE Append(points, address)

\* _import_delivery_points: the loop over rows[i..] (the file has no header
\* row); count is the number printed after 'Пункты выдачи:'
RECURSIVE ImportDeliveryPointRows(_, _, _, _)
ImportDeliveryPointRows(points, rows, i, count) ==
    IF i > Len(rows) THEN [points |-> points, count |-> count]
    ELSE LET address == Strip(PyStrOf(rows[i][1]))
         IN  IF Truthy(rows[i][1]) /\ address # <<>>
             THEN ImportDeliveryPointRows(GetOrCreateAddress(points, address),
                                          rows, i + 1, count + 1)
             ELSE ImportDeliveryPointRows(points, rows, i + 1, count)

\* 'Администратор', 'Менеджер', 'Авторизованный клиент'
Administrator == <<"A", "d", "m", "i", "n", "i", "s", "t", "r", "a", "t", "o", "r">>
Menedzher == <<"M", "e", "n", "e", "d", "z", "h", "e", "r">>
AvtorizovannyyKlient ==
    <<"A", "v", "t", "o", "r", "i", "z", "o", "v", "a", "n", "n", "y", "y", " ",
      "k", "l", "i", "e", "n", "t">>

\* Role.CLIENT, Role.MANAGER, Role.ADMIN
RoleNames == {"client", "manager", "admin"}

\* role_map.get(label, Role.CLIENT)
RoleMap(label) ==
    CASE label = Administrator -> "admin"
      [] label = Menedzher -> "manager"
      [] label = AvtorizovannyyKlient -> "client"
      [] OTHER -> "client"

\* make_password(raw)
MakePassword(raw) == [kind |-> "hashed", of |-> raw]

\* an import that overwrites the User with that username (what C11 rules out)
GetOrCreateUserUpdating(users, username, d) ==
    {u \in users : u.username # username} \cup {d @@ [username |-> username]}

\* User.objects.get_or_create(username=username, defaults=d)
GetOrCreateUser(users, username, d) ==
    IF \E u \in users : u.username = username THEN users
    ELSE users \cup {d @@ [username |-> username]}

\* role_key = role_map.get(str(data.get('Роль сотрудника', '')).strip(), Role.CLIENT)
UserRoleKey(headers, row) ==
    RoleMap(Strip(PyStrOf(Get(headers, row, "Rol sotrudnika", PyStr(<<>>)))))

\* username = str(data.get('Логин', '')).strip()
UserName(headers, row) == Strip(PyStrOf(Get(headers, row, "Login", PyStr(<<>>))))

\* the defaults of get_or_create for a row
UserDefaults(headers, row, role_key) ==
    [full_name |-> Strip(PyStrOf(Get(headers, row, "FIO", PyStr(<<>>)))),
     role |-> PyObj(role_key),
     password |-> MakePassword(Strip(PyStrOf(Get(headers, row, "Parol", PyStr(<<>>)))))]

\* One pass of the loop body of _import_users on a row whose first cell is
\* truthy: skipped when the Role row is missing or the username is empty
ImportUserRow(users, roles, headers, row, role_key, username) ==
    IF role_key \notin roles \/ username = <<>>
    THEN [users |-> users, counted |-> 0]
    ELSE [users |-> GetOrCreateUser(users, username, UserDefaults(headers, row, role_key)),
          counted |-> 1]

\* _import_users: the loop over rows[i..]; count is the number printed
\* after 'Пользователи:'
RECURSIVE ImportUserRows(_, _, _, _, _, _)
RECURSIVE UserRowsAfter(_, _, _, _, _, _)
ImportUserRows(users, roles, headers, rows, i, count) ==
    IF i > Len(rows) THEN [users |-> users, count |-> count]
    ELSE IF ~Truthy(rows[i][1])
    THEN ImportUserRows(users, roles, headers, rows, i + 1, count)
    ELSE UserRowsAfter(ImportUserRow(users, roles, headers, rows[i],
                                     UserRoleKey(headers, rows[i]), UserName(headers, rows[i])),
                       roles, headers, rows, i, count)

UserRowsAfter(r, roles, headers, rows, i, count) ==
    ImportUserRows(r.users, roles, headers, rows, i + 1, count + r.counted)

\* 'Завершен', 'Новый', 'Отменен'
Zavershen == <<"Z", "a", "v", "e", "r", "s", "h", "e", "n">>
Novyy == <<"N", "o", "v", "y", "y">>
Otmenen == <<"O", "t", "m", "e", "n", "e", "n">>

\* status_map.get(label, Order.STATUS_NEW)
StatusMap(label) ==
    CASE label = Zavershen -> "completed"
      [] label = Novyy -> "new"
      [] label = Otmenen -> "cancelled"
      [] OTHER -> "new"

\* a datetime.date
PyDate(d) == [t |-> "date", d |-> d]

\* datetime.now().date(): the day the clock shows during a run
Today == PyDate([y |-> 2026, m |-> 11, d |-> 3])

\* needle in hay (substring)
Contains(hay, needle) ==
    \E i \in 0..(Len(hay) - Len(needle)) : SubSeq(hay, i + 1, i + Len(needle)) = needle

\* DeliveryPoint.objects.filter(address__icontains=dp_address[:30]).first()
\* if dp_address else None: the primary key (position) of the first match, 0 for None
FindDeliveryPoint(points, dp_address) ==
    LET needle == LowerStr(SubSeq(dp_address, 1, IF Len(dp_address) < 30 THEN Len(dp_address) ELSE 30))
        hits == {i \in 1..Len(points) : Contains(LowerStr(points[i]), needle)}
    IN  IF dp_address = <<>> \/ hits = {} THEN 0
        ELSE CHOOSE i \in hits : \A j \in hits : i <= j

\* parse_date(val, label): the value returned and whether the warning is
\* written.  A str goes through strptime; a value with a date() method (a
\* datetime cell) gives its date; anything else gives None.
ParseDateOf(val, r) ==
    CASE val.t = "str" ->
            IF r.ok THEN [value |-> PyDate(r.date), warned |-> FALSE]
            ELSE [value |-> Today, warned |-> TRUE]
      [] val.t = "datetime" -> [value |-> PyDate(val.d), warned |-> FALSE]
      [] OTHER -> [value |-> PyNone, warned |-> FALSE]

ParseDate(val) ==
    ParseDateOf(val, IF val.t = "str" THEN Strptime(val.s)
                     ELSE [ok |-> FALSE, date |-> [y |-> 0, m |-> 0, d |-> 0]])

\* an import that overwrites the Order with that number (what C5 rules out)
GetOrCreateOrderUpdating(orders, number, d) ==
    {o \in orders : o.number # number} \cup {d @@ [number |-> number, client |-> PyNone]}

\* Order.objects.get_or_create(number=number, defaults=d)
GetOrCreateOrder(orders, number, d) ==
    IF \E o \in orders : o.number = number THEN orders
    ELSE orders \cup {d @@ [number |-> number, client |-> PyNone]}

\* a number parse that never skips a row (what C6 rules out)
ParseNumberDefaulting(headers, row) ==
    [ok |-> TRUE, i |-> IntOf(Get(headers, row, "Nomer zakaza", PyInt(0))).i]

\* try: number = int(data.get('Номер заказа', 0)) except (ValueError, TypeError): continue
ParseNumber(headers, row) == IntOf(Get(headers, row, "Nomer zakaza", PyInt(0)))

\* dp_address = str(data.get('Адрес пункта выдачи', '') or '').strip()
OrderAddress(headers, row) ==
    Strip(PyStrOf(PyOr(Get(headers, row, "Adres punkta vydachi", PyStr(<<>>)), PyStr(<<>>))))

\* the defaults of get_or_create for a row; od and dd are what parse_date
\* returned for the two date cells
OrderDefaults(points, headers, row, od, dd) ==
    [article |->
         Strip(PyStrOf(PyOr(Get(headers, row, "Artikul zakaza", PyStr(<<>>)), PyStr(<<>>)))),
     order_date |-> PyOr(od.value, Today),
     delivery_date |-> dd.value,
     delivery_point |-> FindDeliveryPoint(points, OrderAddress(headers, row)),
     client_name |->
         Strip(PyStrOf(PyOr(Get(headers, row, "FIO avtorizirovannogo klienta", PyStr(<<>>)),
                            PyStr(<<>>)))),
     pickup_code |->
         Strip(PyStrOf(PyOr(Get(headers, row, "Kod dlya polucheniya", PyStr(<<>>)),
                            PyStr(<<>>)))),
     status |-> StatusMap(Strip(PyStrOf(Get(headers, row, "Status zakaza", PyStr(Novyy)))))]

\* the warnings parse_date writes for a row: <<number, label>>, the label
\* 'заказа' as "order_date" and 'доставки' as "delivery_date"
OrderWarnings(number, od, dd) ==
    (IF od.warned THEN {<<number, "order_date">>} ELSE {})
        \cup (IF dd.warned THEN {<<number, "delivery_date">>} ELSE {})

\* One pass of the loop body of _import_orders on a row whose first cell is
\* truthy: skipped when the number is no integer
OrderRowStored(orders, points, headers, row, number, od, dd) ==
    IF ~number.ok THEN [orders |-> orders, counted |-> 0, warnings |-> {}]
    ELSE [orders |-> GetOrCreateOrder(orders, number.i,
                                      OrderDefaults(points, headers, row, od, dd)),
          counted |-> 1,
          warnings |-> OrderWarnings(number.i, od, dd)]

ImportOrderRow(orders, points, headers, row) ==
    OrderRowStored(orders, points, headers, row, ParseNumber(headers, row),
                   ParseDate(Get(headers, row, "Data zakaza", PyNone)),
                   ParseDate(Get(headers, row, "Data dostavki", PyNone)))

\* _import_orders: the loop over rows[i..]; count is the number printed
\* after 'Заказы:', warnings the warnings written
RECURSIVE ImportOrderRows(_, _, _, _, _, _, _)
RECURSIVE OrderRowsAfter(_, _, _, _, _, _, _)
ImportOrderRows(orders, points, headers, rows, i, count, warnings) ==
    IF i > Len(rows) THEN [orders |-> orders, count |-> count, warnings |-> warnings]
    ELSE IF ~Truthy(rows[i][1])
    THEN ImportOrderRows(orders, points, headers, rows, i + 1, count, warnings)
    ELSE OrderRowsAfter(ImportOrderRow(orders, points, headers, rows[i]),
                        points, headers, rows, i, count, warnings)

OrderRowsAfter(r, points, headers, rows, i, count, warnings) ==
    ImportOrderRows(r.orders, points, headers, rows, i + 1, count + r.counted,
                    warnings \cup r.warnings)

(***************************************************************************)
(* Access policy: the capability predicates of User.  `self.role and ...`  *)
(* yields self.role itself when it is falsy.                               *)
(***************************************************************************)
is_admin(u) ==
    IF Truthy(u.role) THEN PyBool(u.role.name = "admin") ELSE u.role

is_manager(u) ==
    IF Truthy(u.role) THEN PyBool(u.role.name = "manager") ELSE u.role

\* a can_filter that managers do not have (what C9 rules out)
can_filter_admin_only(u) ==
    IF Truthy(u.role) THEN PyBool(u.role.name = "admin") ELSE u.role

can_filter(u) ==
    IF Truthy(u.role) THEN PyBool(u.role.name \in {"manager", "admin"}) ELSE u.role

\* a can_edit_products that everyone has (what C2 rules out)
can_edit_products_all(u) == PyBool(TRUE)

can_edit_products(u) ==
    IF Truthy(u.role) THEN PyBool(u.role.name = "admin") ELSE u.role

can_view_orders(u) ==
    IF Truthy(u.role) THEN PyBool(u.role.name \in {"manager", "admin"}) ELSE u.role

can_edit_orders(u) ==
    IF Truthy(u.role) THEN PyBool(u.role.name = "admin") ELSE u.role

(***************************************************************************)
(* State.                                                                  *)
(***************************************************************************)
VARIABLES
    roles,            \* Role rows: the set of their names
    users,            \* User rows
    deliveryPoints,   \* DeliveryPoint rows: addresses in primary-key order
    categories,       \* Category rows: the set of their names
    manufacturers,    \* Manufacturer rows
    suppliers,        \* Supplier rows
    products,         \* Product rows
    orders,           \* Order rows
    pc,               \* where the running import command is in handle(); "idle" when none runs
    out,              \* what the import run in progress, or the one that was the most
                      \* recent operation, has written and how it ended
    last              \* the web request that was the most recent operation, and its response

store == <<roles, users, deliveryPoints, categories, manufacturers, suppliers, products, orders>>

vars == <<roles, users, deliveryPoints, categories, manufacturers, suppliers, products,
          orders, pc, out, last>>

\* the lines a run has written: a count per source (-1: not written),
\* the date warnings, and how the run ended
NoOutput ==
    [delivery_points |-> -1, products |-> -1, users |-> -1, orders |-> -1,
     warnings |-> {}, status |-> "none"]

\* the row the pk of a request's URL names: a Product (by its article), an
\* Order (by its number), or none (no pk in the URL, or no row with that pk)
NoTarget == [found |-> FALSE, article |-> <<>>, number |-> 0]
ProductTarget(product) == [found |-> TRUE, article |-> product.article, number |-> 0]
OrderTarget(order) == [found |-> TRUE, article |-> <<>>, number |-> order.number]

NoRequest ==
    [view |-> "none", user |-> PyNone, method |-> "none", target |-> NoTarget,
     status |-> "none", msg |-> "none"]

\* request.user of a visitor who is not logged in
Anonymous == [username |-> <<>>, full_name |-> <<>>, role |-> PyNone,
              password |-> [kind |-> "none", of |-> <<>>]]

Init ==
    /\ roles = {}
    /\ users = {}
    /\ deliveryPoints = <<>>
    /\ categories = {}
    /\ manufacturers = {}
    /\ suppliers = {}
    /\ products = {}
    /\ orders = {}
    /\ pc = "idle"
    /\ out = NoOutput
    /\ last = NoRequest

(***************************************************************************)
(* The import command: handle() and its four sources.                      *)
(***************************************************************************)
\* handle() up to the first source: the header line and _create_roles()
HandleStart ==
    /\ pc = "idle"
    /\ roles' = roles \cup RoleNames
    /\ out' = [NoOutput EXCEPT !.status = "running"]
    /\ pc' = "delivery_points"
    /\ last' = NoRequest
    /\ UNCHANGED <<users, deliveryPoints, categories, manufacturers, suppliers, products, orders>>

NextSource(p) ==
    CASE p = "delivery_points" -> "products"
      [] p = "products" -> "users"
      [] p = "users" -> "orders"
      [] p = "orders" -> "finish"

\* os.path.exists(file) is false: the source is passed over
SkipSource ==
    /\ pc \in {"delivery_points", "products", "users", "orders"}
    /\ pc' = NextSource(pc)
    /\ UNCHANGED <<store, out, last>>

DeliveryPointsImported(r) ==
    /\ deliveryPoints' = r.points
    /\ out' = [out EXCEPT !.delivery_points = r.count]

ImportDeliveryPoints(Files) ==
    /\ pc = "delivery_points"
    /\ \E file \in Files :
          DeliveryPointsImported(ImportDeliveryPointRows(deliveryPoints, file.rows, 1, 0))
    /\ pc' = "products"
    /\ UNCHANGED <<roles, users, categories, manufacturers, suppliers, products, orders, last>>

Catalog == [categories |-> categories, manufacturers |-> manufacturers,
            suppliers |-> suppliers, products |-> products]

\* _import_products has returned or raised: an exception that leaves it
\* leaves handle(), and the command ends there with what was saved kept
ProductsImported(r) ==
    /\ categories' = r.cat.categories
    /\ manufacturers' = r.cat.manufacturers
    /\ suppliers' = r.cat.suppliers
    /\ products' = r.cat.products
    /\ out' = IF r.raised THEN [out EXCEPT !.status = "raised"]
              ELSE [out EXCEPT !.products = r.count]
    /\ pc' = IF r.raised THEN "idle" ELSE "users"

ImportProducts(Files, ImageDirs) ==
    /\ pc = "products"
    /\ \E file \in Files, images \in ImageDirs :
          ProductsImported(ImportProductsFile(Catalog, file, images))
    /\ UNCHANGED <<roles, users, deliveryPoints, orders, last>>

UsersImported(r) ==
    /\ users' = r.users
    /\ out' = [out EXCEPT !.users = r.count]

ImportUsers(Files) ==
    /\ pc = "users"
    /\ \E file \in Files :
          UsersImported(ImportUserRows(users, roles, file.headers, file.rows, 1, 0))
    /\ pc' = "orders"
    /\ UNCHANGED <<roles, deliveryPoints, categories, manufacturers, suppliers, products,
                   orders, last>>

OrdersImported(r) ==
    /\ orders' = r.orders
    /\ out' = [out EXCEPT !.orders = r.count, !.warnings = r.warnings]

ImportOrders(Files) ==
    /\ pc = "orders"
    /\ \E file \in Files :
          OrdersImported(ImportOrderRows(orders, deliveryPoints, file.headers, file.rows,
                                         1, 0, {}))
    /\ pc' = "finish"
    /\ UNCHANGED <<roles, users, deliveryPoints, categories, manufacturers, suppliers,
                   products, last>>

\* the closing line 'Импорт завершён!'
HandleFinish ==
    /\ pc = "finish"
    /\ out' = [out EXCEPT !.status = "success"]
    /\ pc' = "idle"
    /\ UNCHANGED <<store, last>>

(***************************************************************************)
(* The request handlers of views.py.  A request is made by a logged-in     *)
(* User row or by Anonymous, with method GET or POST; `last` records it    *)
(* together with the response: status is "redirect", "render" (a page, 200)*)
(* or "404", msg the level of the message queued for the visitor.          *)
(***************************************************************************)
Methods == {"GET", "POST"}

Visitors == users \cup {Anonymous}

Response(view, u, method, target, status, msg) ==
    [view |-> view, user |-> u, method |-> method, target |-> target,
     status |-> status, msg |-> msg]

\* the response is sent; the output of an earlier import run is history
Respond(view, u, method, target, status, msg) ==
    /\ last' = Response(view, u, method, target, status, msg)
    /\ out' = NoOutput

\* a Decimal with two places
Dec(neg, units, cents) == [neg |-> neg, units |-> units, cents |-> cents]

\* ProductForm.is_valid() for the cleaned fields f; others are the Product
\* rows the unique check compares with (all rows but the form's instance).
\* price has MinValueValidator(0.01), discount and stock MinValueValidator(0).
ProductFormValid(f, others) ==
    /\ f.article # <<>> /\ Len(f.article) <= 50
    /\ \A p \in others : p.article # f.article
    /\ f.name # <<>>
    /\ f.unit # <<>>
    /\ DecimalPositive(f.price)
    /\ f.price.units < Pow10(PriceMaxDigits - PriceDecimalPlaces)
    /\ ~f.discount.neg
    /\ f.discount.units < Pow10(DiscountMaxDigits - DiscountDecimalPlaces)
    /\ f.stock >= 0
    /\ f.category \in categories
    /\ f.manufacturer \in manufacturers
    /\ f.supplier \in suppliers

\* the articles and prices a visitor types into the product form
FormArticles == {<<"A", "1">>, <<"B", "2">>}
FormPrices == {Dec(FALSE, 0, 0), Dec(FALSE, 99, 90)}
\* 'Туфли'
Tufli == <<"T", "u", "f", "l", "i">>

\* guest_login_view: the 'guest' user is made on first use, with no role
\* ('Гость')
Gost == <<"G", "o", "s", "t">>
GuestName == <<"g", "u", "e", "s", "t">>

guest_login_view ==
    /\ pc = "idle"
    /\ users' = GetOrCreateUser(users, GuestName,
                                [full_name |-> Gost, role |-> PyNone,
                                 password |-> [kind |-> "unusable", of |-> <<>>]])
    /\ Respond("guest_login", Anonymous, "GET", NoTarget, "redirect", "none")
    /\ UNCHANGED <<roles, deliveryPoints, categories, manufacturers, suppliers, products,
                   orders, pc>>

\* @login_required: a visitor who is not logged in is sent to the login page
LoginRequired(view, u, method, target) ==
    /\ u = Anonymous
    /\ Respond(view, u, method, target, "redirect", "none")
    /\ UNCHANGED <<store, pc>>

\* the first lines of the five editing views: the capability is missing
Refused(view, u, method, target) ==
    /\ Respond(view, u, method, target, "redirect", "error")
    /\ UNCHANGED <<store, pc>>

product_add ==
    /\ pc = "idle"
    /\ \E u \in Visitors, method \in Methods,
          article \in FormArticles, price \in FormPrices,
          category \in categories \cup {BezKategorii},
          manufacturer \in manufacturers \cup {Neizvesten},
          supplier \in suppliers \cup {Neizvesten} :
          LET form == [article |-> article, name |-> Tufli, unit |-> Para, price |-> price,
                       discount |-> Dec(FALSE, 0, 0), stock |-> 0, description |-> <<>>,
                       category |-> category, manufacturer |-> manufacturer,
                       supplier |-> supplier]
          IN  \/ LoginRequired("product_add", u, method, NoTarget)
              \/ /\ u # Anonymous
                 /\ IF ~Truthy(can_edit_products(u))
                    THEN Refused("product_add", u, method, NoTarget)
                    ELSE IF method = "POST" /\ ProductFormValid(form, products)
                    THEN /\ products' = products \cup {form @@ [image |-> <<>>]}
                         /\ Respond("product_add", u, method, NoTarget,
                                             "redirect", "success")
                         /\ UNCHANGED <<roles, users, deliveryPoints, categories,
                                        manufacturers, suppliers, orders, pc>>
                    ELSE /\ Respond("product_add", u, method, NoTarget, "render", "none")
                         /\ UNCHANGED <<store, pc>>

\* get_object_or_404 finds no row with the pk of the URL
NotFound(view, u, method) ==
    /\ Respond(view, u, method, NoTarget, "404", "none")
    /\ UNCHANGED <<store, pc>>

product_edit ==
    /\ pc = "idle"
    /\ \E u \in Visitors, method \in Methods :
          \/ \E target \in {NoTarget} \cup {ProductTarget(p) : p \in products} :
                LoginRequired("product_edit", u, method, target)
          \/ /\ u # Anonymous
             /\ ~Truthy(can_edit_products(u))
             /\ \E target \in {NoTarget} \cup {ProductTarget(p) : p \in products} :
                   Refused("product_edit", u, method, target)
          \/ /\ u # Anonymous
             /\ Truthy(can_edit_products(u))
             /\ NotFound("product_edit", u, method)
          \/ /\ u # Anonymous
             /\ Truthy(can_edit_products(u))
             /\ \E product \in products, article \in FormArticles, price \in FormPrices :
                   LET form == [product EXCEPT !.article = article, !.price = price]
                   IN  IF method = "POST"
                          /\ ProductFormValid(form, products \ {product})
                       THEN /\ products' = (products \ {product}) \cup {form}
                            /\ Respond("product_edit", u, method, ProductTarget(product),
                                                "redirect", "success")
                            /\ UNCHANGED <<roles, users, deliveryPoints, categories,
                                           manufacturers, suppliers, orders, pc>>
                       ELSE /\ Respond("product_edit", u, method, ProductTarget(product),
                                                "render", "none")
                            /\ UNCHANGED <<store, pc>>

\* a delete that never looks at the orders (what C1 rules out)
HasOrdersNever(product) == FALSE

\* Order.objects.filter(article=product.article).exists()
HasOrders(product) == \E o \in orders : o.article = product.article

\* product_delete after the capability check, for the Product row found
ProductDeleteFound(u, method, product) ==
    IF HasOrders(product)
    THEN Refused("product_delete", u, method, ProductTarget(product))
    ELSE IF method = "POST"
    THEN /\ products' = products \ {product}
         /\ Respond("product_delete", u, method, ProductTarget(product),
                             "redirect", "success")
         /\ UNCHANGED <<roles, users, deliveryPoints, categories, manufacturers,
                        suppliers, orders, pc>>
    ELSE /\ Respond("product_delete", u, method, ProductTarget(product), "render", "none")
         /\ UNCHANGED <<store, pc>>

product_delete ==
    /\ pc = "idle"
    /\ \E u \in Visitors, method \in Methods :
          \/ \E target \in {NoTarget} \cup {ProductTarget(p) : p \in products} :
                LoginRequired("product_delete", u, method, target)
          \/ /\ u # Anonymous
             /\ ~Truthy(can_edit_products(u))
             /\ \E target \in {NoTarget} \cup {ProductTarget(p) : p \in products} :
                   Refused("product_delete", u, method, target)
          \/ /\ u # Anonymous
             /\ Truthy(can_edit_products(u))
             /\ NotFound("product_delete", u, method)
          \/ /\ u # Anonymous
             /\ Truthy(can_edit_products(u))
             /\ \E product \in products : ProductDeleteFound(u, method, product)

\* OrderForm.is_valid() for the cleaned fields f; others are the Order rows
\* the unique check on number compares with
OrderFormValid(f, others) ==
    /\ \A o \in others : o.number # f.number
    /\ f.article # <<>> /\ Len(f.article) <= 50
    /\ f.order_date.t = "date"
    /\ f.delivery_date.t \in {"date", "none"}
    /\ f.client_name # <<>>
    /\ f.pickup_code # <<>>
    /\ f.status \in {"new", "completed", "cancelled"}
    /\ f.delivery_point \in 0..Len(deliveryPoints)
    /\ f.client = PyNone \/ \E u \in users : f.client = PyObj(u.username)

\* the numbers and statuses a visitor enters in the order form
FormNumbers == {1, 2}
FormStatuses == {"new", "completed"}

order_edit ==
    /\ pc = "idle"
    /\ \E u \in Visitors, method \in Methods :
          \/ \E target \in {NoTarget} \cup {OrderTarget(o) : o \in orders} :
                LoginRequired("order_edit", u, method, target)
          \/ /\ u # Anonymous
             /\ ~Truthy(can_edit_orders(u))
             /\ \E target \in {NoTarget} \cup {OrderTarget(o) : o \in orders} :
                   Refused("order_edit", u, method, target)
          \/ /\ u # Anonymous
             /\ Truthy(can_edit_orders(u))
             /\ NotFound("order_edit", u, method)
          \/ /\ u # Anonymous
             /\ Truthy(can_edit_orders(u))
             /\ \E order \in orders, number \in FormNumbers, status \in FormStatuses :
                   LET form == [order EXCEPT !.number = number, !.status = status]
                   IN  IF method = "POST" /\ OrderFormValid(form, orders \ {order})
                       THEN /\ orders' = (orders \ {order}) \cup {form}
                            /\ Respond("order_edit", u, method, OrderTarget(order),
                                                "redirect", "success")
                            /\ UNCHANGED <<roles, users, deliveryPoints, categories,
                                           manufacturers, suppliers, products, pc>>
                       ELSE /\ Respond("order_edit", u, method, OrderTarget(order),
                                                "render", "none")
                            /\ UNCHANGED <<store, pc>>

order_delete ==
    /\ pc = "idle"
    /\ \E u \in Visitors, method \in Methods :
          \/ \E target \in {NoTarget} \cup {OrderTarget(o) : o \in orders} :
                LoginRequired("order_delete", u, method, target)
          \/ /\ u # Anonymous
             /\ ~Truthy(can_edit_orders(u))
             /\ \E target \in {NoTarget} \cup {OrderTarget(o) : o \in orders} :
                   Refused("order_delete", u, method, target)
          \/ /\ u # Anonymous
             /\ Truthy(can_edit_orders(u))
             /\ NotFound("order_delete", u, method)
          \/ /\ u # Anonymous
             /\ Truthy(can_edit_orders(u))
             /\ \E order \in orders :
                   IF method = "POST"
                   THEN /\ orders' = orders \ {order}
                        /\ Respond("order_delete", u, method, OrderTarget(order),
                                            "redirect", "success")
                        /\ UNCHANGED <<roles, users, deliveryPoints, categories,
                                       manufacturers, suppliers, products, pc>>
                   ELSE /\ Respond("order_delete", u, method, OrderTarget(order),
                                            "render", "none")
                        /\ UNCHANGED <<store, pc>>

(***************************************************************************)
(* The files and forms the environment supplies.                           *)
(***************************************************************************)
\* the sequences over S of length at most n
SeqsUpTo(S, n) == UNION {[1..k -> S] : k \in 0..n}

\* the worksheets with the given header row and at most MaxRows data rows,
\* each row a tuple of the per-column cells
Worksheets(headers, Rows) ==
    {[headers |-> headers, rows |-> rs] : rs \in SeqsUpTo(Rows, MaxRows)}

cA1 == <<"A", "1">>
cA1Padded == <<" ", "A", "1", " ">>
cB2 == <<"B", "2">>
cPhoto == <<"p", ".", "j", "p", "g">>

\* the cells of the price column: a price with a decimal comma, a text that
\* is no number, a number of nine digits
PriceCells ==
    {PyStr(<<"1", "2", ",", "5", "0">>), PyStr(<<"a", "b", "c">>),
     PyStr(<<"1", "0", "0", "0", "0", "0", "0", "0", "0">>)}

\* Tovar.xlsx with the article and price columns; the first cell of a row
\* may be empty
ProductPriceFiles ==
    Worksheets(<<"Artikul", "Tsena">>,
               {<<a, p>> : a \in {PyStr(cA1), PyStr(cB2), PyNone}, p \in PriceCells})

\* Tovar.xlsx with the article, stock and photo columns (no price column)
ProductStockFiles ==
    Worksheets(<<"Artikul", "Kol-vo na sklade", "Foto">>,
               {<<a, n, f>> : a \in {PyStr(cA1), PyStr(cA1Padded)},
                              n \in {PyInt(3), PyStr(<<"x">>)},
                              f \in {PyNone, PyStr(cPhoto)}})

ProductFiles == ProductPriceFiles \cup ProductStockFiles

\* the images directory: empty, or holding the photo
ImageDirs == {{}, {cPhoto}}

\* a Tovar.xlsx of one row: a price with a decimal comma, a text that is no
\* number, a number of nine digits
OneProductFiles ==
    {[headers |-> <<"Artikul", "Tsena">>, rows |-> <<<<PyStr(cA1), p>>>>] :
        p \in PriceCells}

\* Tovar.xlsx with the article, discount and stock columns
ProductDiscountFiles ==
    Worksheets(<<"Artikul", "Deystvuyushchaya skidka", "Kol-vo na sklade">>,
               {<<a, d, n>> : a \in {PyStr(cA1), PyStr(cB2)},
                              d \in {PyInt(20), PyInt(0), PyStr(<<"1", "5", "%">>)},
                              n \in {PyInt(0), PyInt(3)}})

\* 'Обувь' padded with blanks, 'Kari'
cObuv == <<" ", "O", "b", "u", "v", " ">>
cKari == <<"K", "a", "r", "i">>

\* Tovar.xlsx with the article only, and with the category, manufacturer
\* and supplier columns, each cell a name or empty
ProductLookupFiles ==
    Worksheets(<<"Artikul">>, {<<PyStr(cA1)>>})
    \cup Worksheets(<<"Artikul", "Kategoriya tovara", "Proizvoditel", "Postavshchik">>,
                    {<<PyStr(cA1), c, m, m>> : c \in {PyStr(cObuv), PyNone},
                                               m \in {PyStr(cKari), PyNone}})

cMoskva == <<"M", "o", "s", "k", "v", "a">>

\* Пункты выдачи_import.xlsx: one column, no header row
DeliveryPointFiles ==
    {[headers |-> <<>>, rows |-> rs] :
        rs \in SeqsUpTo({<<PyStr(cMoskva)>>, <<PyNone>>}, MaxRows)}

cU1 == <<"u", "1">>
cIvanov == <<"I", "v", "a", "n", "o", "v">>
cSecret == <<"p", "w">>

\* user_import.xlsx: a role label (one of the three, or another text), a
\* name, a login, a password
UserFiles ==
    Worksheets(<<"Rol sotrudnika", "FIO", "Login", "Parol">>,
               {<<PyStr(r), PyStr(cIvanov), PyStr(cU1), PyStr(cSecret)>> :
                   r \in {Administrator, Menedzher, AvtorizovannyyKlient}})

\* a user_import.xlsx of one administrator
OneUserFiles ==
    {[headers |-> <<"Rol sotrudnika", "FIO", "Login", "Parol">>,
      rows |-> <<<<PyStr(Administrator), PyStr(cIvanov), PyStr(cU1), PyStr(cSecret)>>>>]}

cPetrov == <<"P", "e", "t", "r", "o", "v">>
cOther == <<"x">>

\* the rows of user_import.xlsx for a login cell: an administrator and a
\* manager, with different names and passwords
UserRowsFor(login) ==
    {<<PyStr(Administrator), PyStr(cIvanov), login, PyStr(cSecret)>>,
     <<PyStr(Menedzher), PyStr(cPetrov), login, PyStr(cOther)>>}

\* the cells of the login column: two logins (one of them the login of the
\* guest), a blank text, an empty cell
LoginCells == {PyStr(cU1), PyStr(GuestName), PyStr(<<" ">>), PyNone}

\* user_import.xlsx with the four columns
UserLoginFiles ==
    Worksheets(<<"Rol sotrudnika", "FIO", "Login", "Parol">>,
               UNION {UserRowsFor(login) : login \in LoginCells})

\* user_import.xlsx without the login column
UserNoLoginFiles ==
    Worksheets(<<"Rol sotrudnika", "FIO">>,
               {<<PyStr(Administrator), PyStr(cIvanov)>>, <<PyStr(Menedzher), PyStr(cPetrov)>>})

UserImportFiles == UserLoginFiles \cup UserNoLoginFiles

cGoodDate == <<"0", "1", ".", "0", "2", ".", "2", "0", "2", "4">>
cIsoDate == <<"2", "0", "2", "4", "-", "0", "2", "-", "0", "1">>
cCode == <<"7", "0", "1">>

\* Заказ_import.xlsx with the article, number and status columns: a number
\* as an integer cell, as text, as a text that is no integer, an empty cell
OrderNumberFiles ==
    Worksheets(<<"Artikul zakaza", "Nomer zakaza", "Status zakaza", "Data zakaza",
                 "FIO avtorizirovannogo klienta", "Kod dlya polucheniya">>,
               {<<PyStr(cA1), n, PyStr(Zavershen), PyStr(cGoodDate), PyStr(cIvanov),
                  PyStr(cCode)>> :
                   n \in {PyInt(1), PyStr(<<" ", "2">>), PyStr(<<"1", "a">>), PyNone}})

\* the cells of a date column: a date as DD.MM.YYYY text, as other text, as
\* a date cell, as a number, empty
DateCells ==
    {PyStr(cGoodDate), PyStr(cIsoDate), PyDateTime([y |-> 2025, m |-> 5, d |-> 17]),
     PyInt(45000), PyNone}

\* Заказ_import.xlsx of one row with the number and the two date columns
OrderDateFiles ==
    {[headers |-> <<"Nomer zakaza", "Data zakaza", "Data dostavki">>,
      rows |-> <<<<PyInt(1), od, dd>>>>] : od \in DateCells, dd \in DateCells}

OrderFiles == OrderNumberFiles \cup OrderDateFiles

\* a Заказ_import.xlsx of one well-formed row
OneOrderFiles ==
    {[headers |-> <<"Nomer zakaza", "Artikul zakaza", "Data zakaza",
                    "FIO avtorizirovannogo klienta", "Kod dlya polucheniya">>,
      rows |-> <<<<PyInt(1), PyStr(cA1), PyStr(cGoodDate), PyStr(cIvanov), PyStr(cCode)>>>>]}

(***************************************************************************)
(* Specifications.  A run of the command and the requests do not overlap:  *)
(* every operation runs to its end before the next begins.                 *)
(***************************************************************************)
\* the whole system, each source with a file of one row
Next ==
    \/ HandleStart
    \/ SkipSource
    \/ ImportDeliveryPoints(DeliveryPointFiles)
    \/ ImportProducts(OneProductFiles, ImageDirs)
    \/ ImportUsers(UserFiles)
    \/ ImportOrders(OneOrderFiles)
    \/ HandleFinish
    \/ guest_login_view
    \/ product_add
    \/ product_edit
    \/ product_delete
    \/ order_edit
    \/ order_delete

Spec == Init /\ [][Next]_vars

\* the import command alone, over every product file
NextProducts ==
    \/ HandleStart
    \/ SkipSource
    \/ ImportProducts(ProductFiles, ImageDirs)
    \/ HandleFinish

SpecProducts == Init /\ [][NextProducts]_vars

\* the order import over every order file, with the order form
NextOrders ==
    \/ HandleStart
    \/ SkipSource
    \/ ImportUsers(OneUserFiles)
    \/ ImportOrders(OrderFiles)
    \/ HandleFinish
    \/ order_edit

SpecOrders == Init /\ [][NextOrders]_vars

\* the user import over every user file, with the guest login
NextUsers ==
    \/ HandleStart
    \/ SkipSource
    \/ ImportUsers(UserImportFiles)
    \/ HandleFinish
    \/ guest_login_view

SpecUsers == Init /\ [][NextUsers]_vars

\* the product import over the files with discounts and stocks
NextDiscounts ==
    \/ HandleStart
    \/ SkipSource
    \/ ImportProducts(ProductDiscountFiles, {{}})
    \/ HandleFinish

SpecDiscounts == Init /\ [][NextDiscounts]_vars

\* the product import over the files with lookup columns
NextLookups ==
    \/ HandleStart
    \/ SkipSource
    \/ ImportProducts(ProductLookupFiles, {{}})
    \/ HandleFinish

SpecLookups == Init /\ [][NextLookups]_vars

(***************************************************************************)
(* Properties.                                                             *)
(***************************************************************************)
\* a step that is a web request: the response recorded is of that request
\* (an import step leaves NoRequest in last)
RequestTo(views) == last'.view \in views /\ last'.user # Anonymous

\* C1: a product_delete request, GET or POST, for a Product whose article is
\* the article of an existing Order removes no Product and is answered by a
\* redirect, with an error message when the visitor is a logged-in user (a
\* visitor who is not logged in is redirected to the login page).
C1_DeleteRefusedWhileOrdered ==
    [][(/\ last'.view = "product_delete"
        /\ last'.target.found
        /\ \E p \in products : p.article = last'.target.article
        /\ \E o \in orders : o.article = last'.target.article)
       => (/\ products' = products
           /\ last'.status = "redirect"
           /\ last'.user # Anonymous => last'.msg = "error")]_vars

\* C1 witness: an administrator's POST to product_delete for a Product with
\* an Order on its article was refused, and the Product is still there.
C1_Witness ==
    /\ last.view = "product_delete" /\ last.method = "POST"
    /\ last.user.role = PyObj("admin")
    /\ last.status = "redirect" /\ last.msg = "error"
    /\ \E p \in products : p.article = last.target.article
    /\ \E o \in orders : o.article = last.target.article

ProductViews == {"product_add", "product_edit", "product_delete"}
OrderViews == {"order_edit", "order_delete"}

\* C2: a request to a product view by a user for whom can_edit_products is
\* not true, or to order_edit / order_delete by a user for whom
\* can_edit_orders is not true, changes no Product and no Order and is
\* answered by a redirect with an error message; and a request that changes
\* a Product or an Order is made by a user whose role is admin.
C2_OnlyAdminEdits ==
    [][/\ (RequestTo(ProductViews) /\ can_edit_products(last'.user) # PyBool(TRUE))
          => (/\ products' = products /\ orders' = orders
              /\ last'.status = "redirect" /\ last'.msg = "error")
       /\ (RequestTo(OrderViews) /\ can_edit_orders(last'.user) # PyBool(TRUE))
          => (/\ products' = products /\ orders' = orders
              /\ last'.status = "redirect" /\ last'.msg = "error")
       /\ (last'.view # "none" /\ (products' # products \/ orders' # orders))
          => last'.user.role = PyObj("admin")]_vars

\* C2 witness: a manager's POST to order_delete for an existing Order was
\* refused, and the Order is still there.
C2_Witness ==
    /\ last.view = "order_delete" /\ last.method = "POST"
    /\ last.user.role = PyObj("manager")
    /\ last.target.found
    /\ \E o \in orders : o.number = last.target.number
    /\ last.status = "redirect" /\ last.msg = "error"

\* C3: an import run always runs to completion: no run ends by an
\* exception, whatever the cells of its files.
C3_ImportRunsToCompletion == out.status # "raised"

\* C4: importing a product file a second time (same images directory) gives
\* the Product, Category, Manufacturer and Supplier rows the first import
\* gave, for every product file (files with a repeated article included)
\* and every store the import may start from.
C4_ProductImportIdempotent ==
    pc = "products" =>
        \A file \in ProductFiles, images \in ImageDirs :
            ImportProductsFile(ImportProductsFile(Catalog, file, images).cat, file, images).cat
                = ImportProductsFile(Catalog, file, images).cat

\* C4 witness: the import is about to read the product file over a store in
\* which an earlier import left a Product with a stock and an image, and a
\* file of two rows on that Product's article changes it.
C4_Witness ==
    /\ pc = "products"
    /\ \E p \in products : p.stock = 3 /\ p.image # <<>> /\ p.article = cA1
    /\ \E file \in ProductStockFiles :
          /\ Len(file.rows) = 2
          /\ ImportProductsFile(Catalog, file, {cPhoto}).count = 2
          /\ ImportProductsFile(Catalog, file, {cPhoto}).cat.products # products

\* C5: the order import changes no existing Order (whether an earlier
\* import or order_edit gave it its fields) and leaves no two Orders with
\* the same number.
C5_OrderImportCreateOnly ==
    [][(pc = "orders" /\ pc' = "finish")
       => (/\ \A o \in orders : o \in orders'
           /\ \A o1, o2 \in orders' : o1.number = o2.number => o1 = o2)]_vars

\* C5 witness: an import has just counted two rows, both with the number of
\* the one Order there is, whose status order_edit had changed to "new"
\* (the rows of the files with an article carry another status).
C5_Witness ==
    /\ pc = "finish"
    /\ out.orders = 2
    /\ \E o \in orders : orders = {o} /\ o.number = 1 /\ o.article = cA1 /\ o.status = "new"

\* the number cells that are no integer: a text that is no integer literal,
\* an empty cell
NonNumericCells == {PyStr(<<"1", "a">>), PyNone}

WithoutRow(rows, i) == SubSeq(rows, 1, i - 1) \o SubSeq(rows, i + 1, Len(rows))

\* C6: a row whose 'Номер заказа' cell is non-numeric is skipped: the
\* import of a file with such a row creates and changes the Orders, counts
\* the rows and writes the warnings exactly as the import of the file
\* without that row does.
C6_NonNumericNumberSkipped ==
    pc = "orders" =>
        \A file \in OrderNumberFiles : \A i \in 1..Len(file.rows) :
            Get(file.headers, file.rows[i], "Nomer zakaza", PyInt(0)) \in NonNumericCells
            => ImportOrderRows(orders, deliveryPoints, file.headers, file.rows, 1, 0, {})
                 = ImportOrderRows(orders, deliveryPoints, file.headers,
                                   WithoutRow(file.rows, i), 1, 0, {})

\* C6 witness: the import is about to read the order file, and for a file
\* whose first row has a non-numeric number and whose second row has a new
\* number, it counts one row and creates one Order.
C6_Witness ==
    /\ pc = "orders"
    /\ \E file \in OrderNumberFiles :
          /\ Len(file.rows) = 2
          /\ file.rows[1][2] \in NonNumericCells
          /\ file.rows[2][2] = PyInt(1)
          /\ ImportOrderRows(orders, deliveryPoints, file.headers, file.rows, 1, 0, {}).count = 1
          /\ Cardinality(ImportOrderRows(orders, deliveryPoints, file.headers, file.rows,
                                         1, 0, {}).orders) = Cardinality(orders) + 1

\* the date cells that hold a value which is no DD.MM.YYYY date: a text in
\* another format, a number
NonMatchingDateCells == {PyStr(cIsoDate), PyInt(45000)}

\* the Order with number 1 after importing one row <<1, od, dd>> of the
\* date file
DateRowImported(od, dd) ==
    ImportOrderRow(orders, deliveryPoints, <<"Nomer zakaza", "Data zakaza", "Data dostavki">>,
                   <<PyInt(1), od, dd>>)

\* C7: for a row that creates an Order, a date cell whose value does not
\* match DD.MM.YYYY (a malformed text, a non-text non-date value) has the
\* current date stored in its field and a warning written that names the
\* order number.
C7_NonMatchingDateReplacedAndWarned ==
    (pc = "orders" /\ \A o \in orders : o.number # 1) =>
        \A od \in DateCells, dd \in DateCells :
            \A o \in {x \in DateRowImported(od, dd).orders : x.number = 1} :
                /\ od \in NonMatchingDateCells
                   => (/\ o.order_date = Today
                       /\ <<1, "order_date">> \in DateRowImported(od, dd).warnings)
                /\ dd \in NonMatchingDateCells
                   => (/\ o.delivery_date = Today
                       /\ <<1, "delivery_date">> \in DateRowImported(od, dd).warnings)

\* C8: for a User with no Role each of the six capability predicates
\* returns the boolean False.
C8_NoRoleGivesFalse ==
    \A u \in users :
        u.role = PyNone =>
            /\ is_admin(u) = PyBool(FALSE)
            /\ is_manager(u) = PyBool(FALSE)
            /\ can_filter(u) = PyBool(FALSE)
            /\ can_edit_products(u) = PyBool(FALSE)
            /\ can_view_orders(u) = PyBool(FALSE)
            /\ can_edit_orders(u) = PyBool(FALSE)

\* the User rows that differ from u in everything but the role
SameRoleAs(u) ==
    {[username |-> n, full_name |-> f, role |-> u.role, password |-> MakePassword(w)] :
        n \in {cU1, GuestName}, f \in {cIvanov, <<>>}, w \in {cSecret, <<>>}}

\* C9: for a User with a Role named client, manager or admin, can_filter
\* and can_view_orders are True exactly for manager and admin,
\* can_edit_products and can_edit_orders exactly for admin, is_admin exactly
\* for admin, is_manager exactly for manager; and a User with the same role
\* gets the same six answers.
C9_CapabilitiesByRoleName ==
    \A u \in users :
        (u.role # PyNone /\ u.role.name \in RoleNames) =>
            /\ can_filter(u) = PyBool(u.role.name \in {"manager", "admin"})
            /\ can_view_orders(u) = PyBool(u.role.name \in {"manager", "admin"})
            /\ can_edit_products(u) = PyBool(u.role.name = "admin")
            /\ can_edit_orders(u) = PyBool(u.role.name = "admin")
            /\ is_admin(u) = PyBool(u.role.name = "admin")
            /\ is_manager(u) = PyBool(u.role.name = "manager")
            /\ \A v \in SameRoleAs(u) :
                  /\ can_filter(v) = can_filter(u)
                  /\ can_view_orders(v) = can_view_orders(u)
                  /\ can_edit_products(v) = can_edit_products(u)
                  /\ can_edit_orders(v) = can_edit_orders(u)
                  /\ is_admin(v) = is_admin(u)
                  /\ is_manager(v) = is_manager(u)

\* C9 witness: a manager is among the users, with the role-less guest.
C9_Witness ==
    /\ \E u \in users : u.role = PyObj("manager")
    /\ \E u \in users : u.role = PyNone

\* C10: every stored Product has price > 0.
C10_PricePositive == \A p \in products : DecimalPositive(p.price)

\* C11: the user import changes no existing User (full name, role and
\* password stay as they were) and leaves no two Users with the same
\* username.
C11_UserImportCreateOnly ==
    [][(pc = "users" /\ pc' = "orders")
       => (/\ \A u \in users : u \in users'
           /\ \A u1, u2 \in users' : u1.username = u2.username => u1 = u2)]_vars

\* C11 witness: an import has just counted two rows, and the only User is
\* the guest made by guest_login_view, still without a role: both rows
\* carried the login of the guest, with a role, a name and a password.
C11_Witness ==
    /\ pc = "orders"
    /\ out.users = 2
    /\ \E u \in users :
          /\ users = {u}
          /\ u.username = GuestName /\ u.role = PyNone /\ u.full_name = Gost
          /\ u.password.kind = "unusable"

\* the login cells that hold no username: an empty cell, a blank text
EmptyLoginCells == {PyNone, PyStr(<<" ">>)}

\* C13: a row of the user file with a non-empty first cell whose login cell
\* is empty or blank, or whose file has no login column, is skipped: the
\* import of a file with such a row creates the Users and counts the rows
\* exactly as the import of the file without that row does.
C13_EmptyUsernameSkipped ==
    pc = "users" =>
        \A file \in UserImportFiles : \A i \in 1..Len(file.rows) :
            (/\ Truthy(file.rows[i][1])
             /\ Get(file.headers, file.rows[i], "Login", PyNone) \in EmptyLoginCells)
            => ImportUserRows(users, roles, file.headers, file.rows, 1, 0)
                 = ImportUserRows(users, roles, file.headers, WithoutRow(file.rows, i), 1, 0)

\* C12 as stated: get_row_class of a Product with discount 20 and stock > 0
\* is 'row-sale', and of a Product with discount 0 (whatever its stock) is
\* the empty tag.
C12_RowClassAsStated ==
    \A p \in products :
        /\ (p.discount = Dec(FALSE, 20, 0) /\ p.stock > 0) => get_row_class(p) = "row-sale"
        /\ p.discount = Dec(FALSE, 0, 0) => get_row_class(p) = ""

\* C12 amended: get_row_class of a Product with discount 20 and stock > 0 is
\* 'row-sale', and of a Product with discount 0 and stock > 0 is the empty
\* tag.
C12_RowClass ==
    \A p \in products :
        /\ (p.discount = Dec(FALSE, 20, 0) /\ p.stock > 0) => get_row_class(p) = "row-sale"
        /\ (p.discount = Dec(FALSE, 0, 0) /\ p.stock > 0) => get_row_class(p) = ""

\* C12 witness: the store holds a Product with discount 20 and one with
\* discount 0, both in stock.
C12_Witness ==
    /\ \E p \in products : p.discount = Dec(FALSE, 20, 0) /\ p.stock > 0
    /\ \E p \in products : p.discount = Dec(FALSE, 0, 0) /\ p.stock > 0

\* the catalog after the import of one row of a file, from the store as it is
LookupRowImported(file, i) == ImportProductRow(Catalog, file.headers, file.rows[i], {}).cat

\* the Product a row gives
ProductOfRow(file, i) ==
    {p \in LookupRowImported(file, i).products :
        p.article = ProductArticle(file.headers, file.rows[i])}

\* C14: for a processed row whose category, manufacturer or supplier value
\* is absent (no such column, or an empty cell), the Product is linked to
\* 'Без категории' (category) or 'Неизвестен' (manufacturer, supplier), and
\* no lookup row with another name is created for it.
C14_AbsentLookupsDefaulted ==
    pc = "products" =>
        \A file \in ProductLookupFiles : \A i \in 1..Len(file.rows) :
            /\ Get(file.headers, file.rows[i], "Kategoriya tovara", PyNone) = PyNone
               => (/\ \A p \in ProductOfRow(file, i) : p.category = BezKategorii
                   /\ LookupRowImported(file, i).categories \subseteq
                          categories \cup {BezKategorii})
            /\ Get(file.headers, file.rows[i], "Proizvoditel", PyNone) = PyNone
               => (/\ \A p \in ProductOfRow(file, i) : p.manufacturer = Neizvesten
                   /\ LookupRowImported(file, i).manufacturers \subseteq
                          manufacturers \cup {Neizvesten})
            /\ Get(file.headers, file.rows[i], "Postavshchik", PyNone) = PyNone
               => (/\ \A p \in ProductOfRow(file, i) : p.supplier = Neizvesten
                   /\ LookupRowImported(file, i).suppliers \subseteq
                          suppliers \cup {Neizvesten})

====
